---- MODULE Spec2Model ----
\* Model of packages/running-extension/src/index.ts: the "Open Tabs" and
\* "Kernels" providers of the running panel, the OpenTabsSignaler that
\* aggregates title changes and layout changes into one change signal, and
\* the registration of the providers by activate.
EXTENDS Integers, Sequences, FiniteSets, TLC

\* ------------------------------------------------------------------ bounds
\* Cap on the length of OpenTabsSignaler._widgets (running() may be called
\* any number of times before a change fires, each call pushing again).
MaxTracked == 3
\* Cap on the number of sessions the session manager lists.
MaxSessions == 2
\* Cap on the number of providers held by the registry.
MaxManagers == 3

\* ---------------------------------------------------------------- entities
\* Widgets that can live in the shell's main area. The first two wrap a
\* content widget (MainAreaWidget), the last one is a plain Widget.
MainAreaWidgets == {"w1", "w2"}
PlainWidgets == {"w3"}
Widgets == MainAreaWidgets \cup PlainWidgets
\* The order in which the dock panel lays out its tabs.
TabOrder == <<"w1", "w2", "w3">>
Labels == {"a", "b"}
Providers == {"Open Tabs", "Kernels"}
\* What a call of Widget.close() can do: detach the widget, leave it in
\* place (the close request is refused), or throw.
Outcomes == {"closed", "refused", "throws"}

VARIABLES
  main,           \* labShell.widgets('main'), in shell order
  label,          \* widget |-> its title.label
  _widgets,       \* OpenTabsSignaler._widgets
  conns,          \* widget |-> connections of content.title.changed to _emitTabsChanged
  sessions,       \* app.serviceManager.sessions.running()
  managers,       \* RunningSessionManagers: the registered providers, in order
  added,          \* every provider ever added to the registry, in order of add
  removed,        \* positions of `added` whose disposable was invoked
  items,          \* provider |-> the items the listener's last running() returned
  pending,        \* provider |-> runningChanged received, running() not yet re-invoked
  stable,         \* provider |-> source state unchanged since the last running()
  last,           \* the operation that produced this state
  fired,          \* emissions of tabsChanged made by the last operation
  hit,            \* a tracked entity changed its title since the last running()
  temit,          \* emissions caused by title changes since the last running()
  executed        \* the app.commands.execute calls made by the last open()

vars == <<main, label, _widgets, conns, sessions, managers, added,
          removed, items, pending, stable, last, fired, hit, temit, executed>>

shellVars == <<main, label>>
signalerVars == <<_widgets, conns>>
kernelVars == <<sessions>>
registryVars == <<managers, added, removed>>
batchVars == <<hit, temit>>

\* ------------------------------------------------------------ sequence help
Min(a, b) == IF a < b THEN a ELSE b

Range(s) == {s[i] : i \in 1..Len(s)}

Count(x, s) == Cardinality({i \in 1..Len(s) : s[i] = x})

RemoveAt(s, i) == SubSeq(s, 1, i - 1) \o SubSeq(s, i + 1, Len(s))

Without(s, x) == SelectSeq(s, LAMBDA y : y # x)

\* ------------------------------------------------------------ lumino signal
\* Variant of Connect that accepts a connection that already exists.
ConnectAgain(c, w) == [c EXCEPT ![w] = c[w] + 1]

\* Signal.connect: a connection of the same slot and receiver that already
\* exists is refused, so a title holds at most one connection to the signaler.
Connect(c, w) == IF c[w] > 0 THEN c ELSE [c EXCEPT ![w] = 1]

\* Signal.disconnect: removes the (oldest) matching connection, if any.
Disconnect(c, w) == IF c[w] > 0 THEN [c EXCEPT ![w] = c[w] - 1] ELSE c

\* ---------------------------------------------------------- OpenTabsSignaler
IsMainAreaWidget(w) == w \in MainAreaWidgets

\* Variant of addWidget that tracks a widget of any kind, through its own title.
addWidgetAnyKind(s, w) ==
  [s EXCEPT !.conns = Connect(s.conns, w), !.widgets = Append(s.widgets, w)]

\* Variant of addWidget that records the widget without subscribing.
addWidgetNoConnect(s, w) ==
  IF IsMainAreaWidget(w) THEN [s EXCEPT !.widgets = Append(s.widgets, w)] ELSE s

\* Variant of addWidget that subscribes without recording the widget.
addWidgetNoPush(s, w) ==
  IF IsMainAreaWidget(w) THEN [s EXCEPT !.conns = Connect(s.conns, w)] ELSE s

\* Variant of addWidget that announces the widget it starts to track.
addWidgetEmitting(s, w) ==
  IF IsMainAreaWidget(w)
  THEN [s EXCEPT !.conns = Connect(s.conns, w), !.widgets = Append(s.widgets, w),
                 !.fired = s.fired + 1]
  ELSE s

\* addWidget(widget): the signaler's part of the state is s = [widgets, conns].
addWidget(s, w) ==
  IF IsMainAreaWidget(w)
  THEN [s EXCEPT !.conns = Connect(s.conns, w), !.widgets = Append(s.widgets, w)]
  ELSE s

\* The map of running(): addWidget on each widget of the main area, in order.
RECURSIVE AddAll(_, _)
AddAll(s, m) == IF m = <<>> THEN s ELSE AddAll(addWidget(s, Head(m)), Tail(m))

\* Variant of DisconnectAll that disconnects nothing.
DisconnectNone(c, ws) == c

\* this._widgets.forEach(widget => ...disconnect(...))
RECURSIVE DisconnectAll(_, _)
DisconnectAll(c, ws) ==
  IF ws = <<>> THEN c ELSE DisconnectAll(Disconnect(c, Head(ws)), Tail(ws))

\* Variant of _emitTabsChanged that returns early when nothing is tracked.
_emitTabsChangedIfTracked(s, sync, m) ==
  IF s.widgets = <<>> THEN s
  ELSE LET cleared == [widgets |-> <<>>,
                       conns |-> DisconnectAll(s.conns, s.widgets),
                       fired |-> s.fired + 1,
                       requeried |-> s.requeried]
       IN IF sync
          THEN [AddAll(cleared, m) EXCEPT !.requeried = TRUE]
          ELSE cleared

\* Variant of _emitTabsChanged that disconnects the first tracked widget only.
_emitTabsChangedFirstOnly(s, sync, m) ==
  LET cleared == [widgets |-> <<>>,
                  conns |-> DisconnectAll(s.conns, SubSeq(s.widgets, 1, Min(1, Len(s.widgets)))),
                  fired |-> s.fired + 1,
                  requeried |-> s.requeried]
  IN IF sync
     THEN [AddAll(cleared, m) EXCEPT !.requeried = TRUE]
     ELSE cleared

\* Variant of _emitTabsChanged that emits and leaves what is tracked alone.
_emitTabsChangedEmitOnly(s, sync, m) ==
  LET told == [s EXCEPT !.fired = s.fired + 1]
  IN IF sync
     THEN [AddAll(told, m) EXCEPT !.requeried = TRUE]
     ELSE told

\* Variant of _emitTabsChanged that emits first and then disconnects and
\* clears: what the listener subscribes from inside its handler is undone.
_emitTabsChangedEmitFirst(s, sync, m) ==
  LET told == IF sync THEN [AddAll(s, m) EXCEPT !.requeried = TRUE] ELSE s
  IN [widgets |-> <<>>,
      conns |-> DisconnectAll(told.conns, told.widgets),
      fired |-> s.fired + 1,
      requeried |-> told.requeried]

\* _emitTabsChanged(): disconnect every tracked widget, clear the list, emit.
\* A listener of tabsChanged may (sync) call running() from inside its handler;
\* m is the main area at that moment.
_emitTabsChanged(s, sync, m) ==
  LET cleared == [widgets |-> <<>>,
                  conns |-> DisconnectAll(s.conns, s.widgets),
                  fired |-> s.fired + 1,
                  requeried |-> s.requeried]
  IN IF sync
     THEN [AddAll(cleared, m) EXCEPT !.requeried = TRUE]
     ELSE cleared

\* Emission of content.title.changed of w: the connections present when the
\* emission starts are visited oldest first (k0 of them); one that has been
\* disconnected in the meantime (dead counts them) is skipped, one made in the
\* meantime is not visited.
RECURSIVE TitleChanged(_, _, _, _, _, _, _)
TitleChanged(s, w, i, k0, dead, sync, m) ==
  IF i > k0 THEN s
  ELSE IF dead >= i THEN TitleChanged(s, w, i + 1, k0, dead, sync, m)
  ELSE LET gone == Min(Count(w, s.widgets), s.conns[w])
       IN TitleChanged(_emitTabsChanged(s, sync, m), w, i + 1, k0,
                       Min(k0, dead + gone), sync, m)

Signaler == [widgets |-> _widgets, conns |-> conns, fired |-> 0, requeried |-> FALSE]

\* ------------------------------------------------------------------ OpenTab
OpenTab(w, lbl) == [id |-> w, label |-> lbl[w], icon |-> "fileIcon"]

\* Variant of OpenTabs that lists the MainAreaWidgets only.
OpenTabsTrackedKind(m, lbl) ==
  LET kept == SelectSeq(m, IsMainAreaWidget)
  IN [i \in 1..Len(kept) |-> OpenTab(kept[i], lbl)]

\* Variant of OpenTabs that skips the widgets the signaler already tracks.
OpenTabsUntracked(m, lbl) ==
  LET kept == SelectSeq(m, LAMBDA w : w \notin Range(_widgets))
  IN [i \in 1..Len(kept) |-> OpenTab(kept[i], lbl)]

\* running() of the Open Tabs provider: one OpenTab per widget of the main area.
OpenTabs(m, lbl) == [i \in 1..Len(m) |-> OpenTab(m[i], lbl)]

\* ------------------------------------------------------------------ strings
\* A string is the sequence of its characters.
Dot == <<".">>
Ipynb == <<".", "i", "p", "y", "n", "b">>
Console == <<"c", "o", "n", "s", "o", "l", "e">>

\* String.prototype.indexOf(sub) !== -1
Contains(s, sub) ==
  \E i \in 0..(Len(s) - Len(sub)) : SubSeq(s, i + 1, i + Len(sub)) = sub

LowerChar(c) ==
  CASE c = "C" -> "c" [] c = "O" -> "o" [] c = "N" -> "n" [] c = "S" -> "s"
    [] c = "L" -> "l" [] c = "E" -> "e" [] OTHER -> c

\* String.prototype.toLowerCase()
toLowerCase(s) == [i \in 1..Len(s) |-> LowerChar(s[i])]

\* PathExt.basename(path): trailing slashes are dropped, then the part after
\* the last slash is kept.
RECURSIVE StripSlashes(_)
StripSlashes(s) ==
  IF s # <<>> /\ s[Len(s)] = "/" THEN StripSlashes(SubSeq(s, 1, Len(s) - 1)) ELSE s

RECURSIVE LastSegment(_)
LastSegment(s) ==
  IF s = <<>> THEN <<>>
  ELSE IF s[Len(s)] = "/" THEN <<>>
  ELSE Append(LastSegment(SubSeq(s, 1, Len(s) - 1)), s[Len(s)])

basename(path) == LastSegment(StripSlashes(path))

\* ---------------------------------------------------------- session records
Names == { <<>>,
           <<"f", "o", "o", ".", "i", "p", "y", "n", "b">>,
           <<"f", "o", "o">>,
           <<"a", ".", "p", "y">> }
Paths == { <<"x">>,
           <<"d", ".", "d", "/", "x">>,
           <<"n", "b", ".", "i", "p", "y", "n", "b">>,
           <<"d", "/", "a", ".", "p", "y">>,
           <<"d", ".", "d", "/">>,
           <<"n", ".", "i", "p", "y", "n", "b", "/", "x">> }
Types == { <<"c", "o", "n", "s", "o", "l", "e">>,
           <<"C", "o", "n", "s", "o", "l", "e">>,
           <<"C", "O", "N", "S", "O", "L", "E">>,
           <<"n", "o", "t", "e", "b", "o", "o", "k">>,
           <<"f", "i", "l", "e">> }

\* Session.IModel, as far as the extension reads it.
SessionModels == [id : {"s1"}, name : Names, path : Paths, type : Types]

\* The sessions the session manager lists while the tabs are exercised.
ListedModels ==
  { [id |-> "s1", name |-> <<>>, path |-> <<"x">>,
     type |-> <<"n", "o", "t", "e", "b", "o", "o", "k">>],
    [id |-> "s2", name |-> <<>>, path |-> <<"n", "b", ".", "i", "p", "y", "n", "b">>,
     type |-> <<"C", "o", "n", "s", "o", "l", "e">>] }

\* -------------------------------------------------------------- RunningKernel
\* m.name || PathExt.basename(m.path)
DisplayName(m) == IF m.name # <<>> THEN m.name ELSE basename(m.path)

\* Variant of filterSessions that looks for the dot in the whole path.
filterSessionsWholePath(m) ==
  Contains(IF m.name # <<>> THEN m.name ELSE m.path, Dot) \/ m.name # <<>>

filterSessions(m) == Contains(DisplayName(m), Dot) \/ m.name # <<>>

\* Variant of icon that tests the type tag first.
iconTypeFirst(m) ==
  IF toLowerCase(m.type) = Console THEN "consoleIcon"
  ELSE IF Contains(DisplayName(m), Ipynb) THEN "notebookIcon"
  ELSE "fileIcon"

icon(m) ==
  IF Contains(DisplayName(m), Ipynb) THEN "notebookIcon"
  ELSE IF toLowerCase(m.type) = Console THEN "consoleIcon"
  ELSE "fileIcon"

\* Variant of open that compares the type tag as it is written.
openCaseSensitive(m) ==
  IF m.type = Console
  THEN <<[command |-> "console:open", path |-> m.path]>>
  ELSE <<[command |-> "docmanager:open", path |-> m.path]>>

\* RunningKernel.open(): the calls of app.commands.execute it makes, in order.
open(m) ==
  IF toLowerCase(m.type) = Console
  THEN <<[command |-> "console:open", path |-> m.path]>>
  ELSE <<[command |-> "docmanager:open", path |-> m.path]>>

\* new RunningKernel(model): the item keeps the record it was built from.
RunningKernel(m) ==
  [id |-> m.id, label |-> DisplayName(m), icon |-> icon(m), model |-> m]

\* running() of the Kernels provider: filter, then map.
Kernels(ss) ==
  LET kept == SelectSeq(ss, filterSessions)
  IN [i \in 1..Len(kept) |-> RunningKernel(kept[i])]

\* ----------------------------------------------------------------- registry
\* RunningSessionManagers: add(manager) appends the provider and hands back a
\* disposable; a provider is known by its position h in `added`.
RegistryAdd(reg, name) ==
  [managers |-> Append(reg.managers, Len(reg.added) + 1),
   added |-> Append(reg.added, name),
   removed |-> reg.removed]

\* The disposable returned by add: removes the provider if it is still there.
RegistryDispose(reg, h) ==
  [managers |-> Without(reg.managers, h),
   added |-> reg.added,
   removed |-> reg.removed \cup {h}]

\* items(): the providers in iteration order, by name.
RegistryItems(reg) == [i \in 1..Len(reg.managers) |-> reg.added[reg.managers[i]]]

addOpenTabs(reg) == RegistryAdd(reg, "Open Tabs")

addKernelRunningSessionManager(reg) == RegistryAdd(reg, "Kernels")

\* Variant of activate that registers the Kernels provider first.
activateKernelsFirst(labShell) ==
  LET fresh == [managers |-> <<>>, added |-> <<>>, removed |-> {}]
      withKernels == addKernelRunningSessionManager(fresh)
  IN IF labShell THEN addOpenTabs(withKernels) ELSE withKernels

\* activate(app, translator, restorer, labShell) on a fresh registry.
activate(labShell) ==
  LET fresh == [managers |-> <<>>, added |-> <<>>, removed |-> {}]
      withTabs == IF labShell THEN addOpenTabs(fresh) ELSE fresh
  IN addKernelRunningSessionManager(withTabs)

Registry == [managers |-> managers, added |-> added, removed |-> removed]

\* ------------------------------------------------------------- bookkeeping
\* The operation that led to a state:
\*   op    its name
\*   arg   its argument (a widget, a provider, a session id)
\*   sync  the listener re-invoked running() from inside its handler
\*   sub   title: the title was connected to the signaler; running: a change
\*         was pending; shutdown, dispose: it removed the entity
\*   pre   title, layout: the number of titles connected before; running: 1
\*         when the source was unchanged since the previous running();
\*         shutdown: 1 when the entity was in the main area
\*   dup   title: how many times the widget was in _widgets before
Op(op, arg, sync, sub, pre, dup) ==
  [op |-> op, arg |-> arg, sync |-> sync, sub |-> sub, pre |-> pre, dup |-> dup]

\* The listener of the Open Tabs provider after an operation that left the
\* signaler as s1 (s1.fired emissions, s1.requeried: running() was re-invoked
\* from inside the handler, on main area m1 with labels l1).
Deliver(s1, m1, l1, srcChanged) ==
  /\ _widgets' = s1.widgets
  /\ conns' = s1.conns
  /\ fired' = s1.fired
  /\ items' = IF s1.requeried
                THEN [items EXCEPT !["Open Tabs"] = OpenTabs(m1, l1)]
                ELSE items
  /\ pending' = [pending EXCEPT !["Open Tabs"] =
                   IF s1.requeried THEN FALSE ELSE (@ \/ s1.fired > 0)]
  /\ stable' = [stable EXCEPT !["Open Tabs"] =
                  IF s1.requeried THEN TRUE ELSE (@ /\ ~srcChanged)]

\* The number of titles connected to the signaler.
Subscribed == Cardinality({w \in Widgets : conns[w] > 0})

Quiet == [widgets |-> _widgets, conns |-> conns, fired |-> 0, requeried |-> FALSE]

\* ------------------------------------------------------------------ initial
Fixed ==
  /\ main = <<>>
  /\ label = [w \in Widgets |-> "a"]
  /\ _widgets = <<>>
  /\ conns = [w \in Widgets |-> 0]
  /\ items = [p \in Providers |-> <<>>]
  /\ pending = [p \in Providers |-> FALSE]
  /\ stable = [p \in Providers |-> FALSE]
  /\ fired = 0
  /\ hit = FALSE
  /\ temit = 0
  /\ executed = <<>>

\* The state once activate has run with a lab shell: both providers are
\* registered, the signaler listens to layoutModified and tracks nothing.
Init ==
  /\ Fixed
  /\ sessions = <<>>
  /\ managers = activate(TRUE).managers
  /\ added = activate(TRUE).added
  /\ removed = activate(TRUE).removed
  /\ last = Op("activate", "shell", FALSE, FALSE, 0, 0)

\* --------------------------------------------------------- Open Tabs actions
\* running() of the Open Tabs provider.
OpenTabsRunning ==
  LET s1 == AddAll(Signaler, main)
  IN /\ Len(s1.widgets) <= MaxTracked
     /\ _widgets' = s1.widgets
     /\ conns' = s1.conns
     /\ fired' = s1.fired
     /\ items' = [items EXCEPT !["Open Tabs"] = OpenTabs(main, label)]
     /\ pending' = [pending EXCEPT !["Open Tabs"] = FALSE]
     /\ stable' = [stable EXCEPT !["Open Tabs"] = TRUE]
     /\ hit' = FALSE /\ temit' = 0
     /\ last' = Op("running", "Open Tabs", FALSE, pending["Open Tabs"],
                   IF stable["Open Tabs"] THEN 1 ELSE 0, 0)
     /\ UNCHANGED <<executed, shellVars, kernelVars, registryVars>>

\* The title of widget w is set to l (Title.label's setter returns early when
\* the value is the same); a MainAreaWidget's content title and own title
\* mirror each other, so content.title.changed is emitted. The slots that
\* run are the connections addWidget made to the title of w.
TitleChange(w, l, sync) ==
  LET s1 == TitleChanged(Signaler, w, 1, conns[w], 0, sync, main)
      l1 == [label EXCEPT ![w] = l]
  IN /\ l # label[w]
     /\ w \in Range(main) \/ conns[w] > 0
     /\ label' = l1
     /\ Deliver(s1, main, l1, w \in Range(main))
     /\ hit' = IF s1.requeried THEN FALSE ELSE (hit \/ conns[w] > 0)
     /\ temit' = IF s1.requeried THEN 0 ELSE Min(2, temit + s1.fired)
     /\ last' = Op("title", w, sync, conns[w] > 0, Subscribed, Count(w, _widgets))
     /\ UNCHANGED <<executed, main, kernelVars, registryVars>>

\* labShell.layoutModified fires: the slot connected by the constructor runs.
LayoutModified(sync) ==
  LET s1 == _emitTabsChanged(Signaler, sync, main)
  IN /\ Deliver(s1, main, label, FALSE)
     /\ hit' = IF s1.requeried THEN FALSE ELSE hit
     /\ temit' = IF s1.requeried THEN 0 ELSE temit
     /\ last' = Op("layout", "", sync, FALSE, Subscribed, 0)
     /\ UNCHANGED <<executed, main, label, kernelVars, registryVars>>

\* The host adds widget w to the main area; the tabs of the dock panel stand
\* in TabOrder.
ShellAdd(w) ==
  /\ w \notin Range(main)
  /\ main' = SelectSeq(TabOrder, LAMBDA x : x = w \/ x \in Range(main))
  /\ Deliver(Quiet, main', label, TRUE)
  /\ last' = Op("add", "", FALSE, FALSE, 0, 0)
  /\ UNCHANGED <<executed, label, kernelVars, registryVars, batchVars>>

\* Widget.close() with the given outcome, on main area cur.
close(cur, w, outcome) == IF outcome = "closed" THEN Without(cur, w) ELSE cur

\* OpenTab.shutdown() of an item the listener holds.
Shutdown(w, outcome) ==
  /\ \E i \in 1..Len(items["Open Tabs"]) : items["Open Tabs"][i].id = w
  /\ main' = close(main, w, outcome)
  /\ Deliver(Quiet, main', label, main' # main)
  /\ last' = Op("shutdown", w, FALSE, outcome = "closed",
                IF w \in Range(main) THEN 1 ELSE 0, 0)
  /\ UNCHANGED <<executed, label, kernelVars, registryVars, batchVars>>

\* toArray(labShell.widgets('main')).forEach(widget => widget.close()):
\* a close() that throws ends the forEach. oc gives what each close() does.
RECURSIVE CloseEach(_, _, _)
CloseEach(snap, cur, oc) ==
  IF snap = <<>> THEN cur
  ELSE IF oc[Head(snap)] = "throws" THEN cur
  ELSE CloseEach(Tail(snap), close(cur, Head(snap), oc[Head(snap)]), oc)

\* shutdownAll() of the Open Tabs provider, where the close() of widget
\* thrower throws ("none": no close() throws) and every other one closes.
ShutdownAll(thrower) ==
  LET oc == [w \in Widgets |-> IF w = thrower THEN "throws" ELSE "closed"]
  IN /\ thrower \in Range(main) \cup {"none"}
     /\ main' = CloseEach(main, main, oc)
     /\ Deliver(Quiet, main', label, main' # main)
     /\ last' = Op("shutdownAll", thrower, FALSE, FALSE, 0, 0)
     /\ UNCHANGED <<executed, label, kernelVars, registryVars, batchVars>>

\* ----------------------------------------------------------- Kernels actions
\* The change of the session list is announced by manager.runningChanged,
\* which the provider hands out as its runningChanged.
SessionsChanged(ss) ==
  /\ sessions' = ss
  /\ pending' = [pending EXCEPT !["Kernels"] = TRUE]
  /\ stable' = [stable EXCEPT !["Kernels"] = FALSE]
  /\ fired' = 0

\* running() of the Kernels provider.
KernelsRunning ==
  /\ items' = [items EXCEPT !["Kernels"] = Kernels(sessions)]
  /\ pending' = [pending EXCEPT !["Kernels"] = FALSE]
  /\ stable' = [stable EXCEPT !["Kernels"] = TRUE]
  /\ fired' = 0
  /\ last' = Op("running", "Kernels", FALSE, pending["Kernels"],
                IF stable["Kernels"] THEN 1 ELSE 0, 0)
  /\ UNCHANGED <<executed, shellVars, signalerVars, kernelVars, registryVars, batchVars>>

\* A session starts and the manager lists it.
SessionStarted(m) ==
  /\ Len(sessions) < MaxSessions
  /\ \A i \in 1..Len(sessions) : sessions[i].id # m.id
  /\ SessionsChanged(Append(sessions, m))
  /\ last' = Op("started", m.id, FALSE, FALSE, 0, 0)
  /\ UNCHANGED <<executed, shellVars, signalerVars, registryVars, batchVars, items>>

\* RunningKernel.shutdown(): manager.shutdown(id); a failed shutdown leaves
\* the session listed and announces nothing.
KernelShutdown(i, ok) ==
  /\ i \in 1..Len(sessions)
  /\ IF ok THEN SessionsChanged(RemoveAt(sessions, i))
     ELSE UNCHANGED <<sessions, pending, stable>> /\ fired' = 0
  /\ last' = Op("kshutdown", sessions[i].id, FALSE, ok, 0, 0)
  /\ UNCHANGED <<executed, shellVars, signalerVars, registryVars, batchVars, items>>

\* RunningKernel.open() of the item at position i of what the listener holds.
KernelOpen(i) ==
  /\ i \in 1..Len(items["Kernels"])
  /\ executed' = open(items["Kernels"][i].model)
  /\ fired' = 0
  /\ last' = Op("open", items["Kernels"][i].id, FALSE, FALSE, 0, 0)
  /\ UNCHANGED <<shellVars, signalerVars, kernelVars, registryVars, batchVars,
                 items, pending, stable>>

\* shutdownAll: () => manager.shutdownAll(); the sessions at the positions
\* in failing stay listed.
KernelsShutdownAll(failing) ==
  /\ sessions # <<>>
  /\ LET kept == [i \in 1..Len(sessions) |-> i \in failing]
         ss == SelectSeq([i \in 1..Len(sessions) |-> [m |-> sessions[i], k |-> kept[i]]],
                         LAMBDA e : e.k)
     IN IF Len(ss) < Len(sessions)
        THEN SessionsChanged([i \in 1..Len(ss) |-> ss[i].m])
        ELSE UNCHANGED <<sessions, pending, stable>> /\ fired' = 0
  /\ last' = Op("kshutdownAll", "Kernels", FALSE, failing = {}, 0, 0)
  /\ UNCHANGED <<executed, shellVars, signalerVars, registryVars, batchVars, items>>

\* ---------------------------------------------------------- registry actions
\* activate runs once, on startup, with or without a lab shell.
Activate(labShell) ==
  /\ last.op = "init"
  /\ managers' = activate(labShell).managers
  /\ added' = activate(labShell).added
  /\ removed' = activate(labShell).removed
  /\ last' = Op("activate", IF labShell THEN "shell" ELSE "", FALSE, FALSE, 0, 0)
  /\ UNCHANGED <<executed, shellVars, signalerVars, kernelVars, batchVars, items, pending,
                 stable, fired>>

\* Another extension adds a provider to the registry activate returned.
Add(name) ==
  /\ last.op # "init"
  /\ Len(added) < MaxManagers
  /\ managers' = RegistryAdd(Registry, name).managers
  /\ added' = RegistryAdd(Registry, name).added
  /\ removed' = RegistryAdd(Registry, name).removed
  /\ last' = Op("register", name, FALSE, FALSE, 0, 0)
  /\ UNCHANGED <<executed, shellVars, signalerVars, kernelVars, batchVars, items, pending,
                 stable, fired>>

\* The disposable of provider h is invoked.
Dispose(h) ==
  /\ h \in 1..Len(added)
  /\ managers' = RegistryDispose(Registry, h).managers
  /\ added' = RegistryDispose(Registry, h).added
  /\ removed' = RegistryDispose(Registry, h).removed
  /\ last' = Op("dispose", "", FALSE, h \in Range(managers), 0, 0)
  /\ UNCHANGED <<executed, shellVars, signalerVars, kernelVars, batchVars, items, pending,
                 stable, fired>>

\* --------------------------------------------------------------------- Spec
\* The two providers share no state: each is a closure of its own add
\* function. A behaviour of Spec exercises one of them at a time.
TabsIdle ==
  /\ main = <<>> /\ _widgets = <<>> /\ items["Open Tabs"] = <<>>
  /\ ~pending["Open Tabs"] /\ ~stable["Open Tabs"]

KernelsIdle ==
  /\ sessions = <<>> /\ items["Kernels"] = <<>>
  /\ ~pending["Kernels"] /\ ~stable["Kernels"]

Next ==
  \/ KernelsIdle /\ OpenTabsRunning
  \/ KernelsIdle /\ \E w \in Widgets, l \in Labels, sync \in BOOLEAN :
                      TitleChange(w, l, sync)
  \/ KernelsIdle /\ \E sync \in BOOLEAN : LayoutModified(sync)
  \/ KernelsIdle /\ \E w \in Widgets : ShellAdd(w)
  \/ KernelsIdle /\ \E w \in Widgets, outcome \in Outcomes : Shutdown(w, outcome)
  \/ KernelsIdle /\ \E thrower \in Widgets \cup {"none"} : ShutdownAll(thrower)
  \/ TabsIdle /\ KernelsRunning
  \/ TabsIdle /\ \E m \in ListedModels : SessionStarted(m)
  \/ TabsIdle /\ \E i \in 1..MaxSessions, ok \in BOOLEAN : KernelShutdown(i, ok)
  \/ TabsIdle /\ \E failing \in SUBSET (1..MaxSessions) : KernelsShutdownAll(failing)

Spec == Init /\ [][Next]_vars

\* -------------------------------------------------------------------- KSpec
\* The Kernels provider on one listed session, drawn from SessionModels.
KInit ==
  /\ Fixed
  /\ \E m \in SessionModels : sessions = <<m>>
  /\ managers = activate(TRUE).managers
  /\ added = activate(TRUE).added
  /\ removed = activate(TRUE).removed
  /\ last = Op("activate", "shell", FALSE, FALSE, 0, 0)

KNext ==
  \/ KernelsRunning
  \/ \E ok \in BOOLEAN : KernelShutdown(1, ok)
  \/ KernelOpen(1)

KSpec == KInit /\ [][KNext]_vars

\* -------------------------------------------------------------------- RSpec
\* The registry: activate, then adds and disposals by other extensions.
ProviderNames == Providers \cup {"Terminals"}

RInit ==
  /\ Fixed
  /\ sessions = <<>>
  /\ managers = <<>>
  /\ added = <<>>
  /\ removed = {}
  /\ last = Op("init", "", FALSE, FALSE, 0, 0)

RNext ==
  \/ \E labShell \in BOOLEAN : Activate(labShell)
  \/ \E name \in ProviderNames : Add(name)
  \/ \E h \in 1..MaxManagers : Dispose(h)

RSpec == RInit /\ [][RNext]_vars

\* -------------------------------------------------------------------- FSpec
\* The Open Tabs provider between the host and the listener of the running
\* panel. The host raises layoutModified whenever the collection of the main
\* area changes; the listener calls running() once at the start and once
\* after every emission, from inside its handler or at any later point.

\* new OpenTabsSignaler(labShell): nothing tracked, nothing emitted.
NewSignaler ==
  [widgets |-> <<>>, conns |-> [w \in Widgets |-> 0], fired |-> 0,
   requeried |-> FALSE]

\* The host changes the main area to m1 and raises layoutModified.
HostChange(op, w, m1, sync) ==
  LET s1 == _emitTabsChanged(Signaler, sync, m1)
  IN /\ main' = m1
     /\ Deliver(s1, m1, label, TRUE)
     /\ hit' = IF s1.requeried THEN FALSE ELSE hit
     /\ temit' = IF s1.requeried THEN 0 ELSE temit
     /\ last' = Op(op, w, sync, FALSE, Subscribed, 0)
     /\ UNCHANGED <<executed, label, kernelVars, registryVars>>

HostAdd(w, sync) ==
  /\ w \notin Range(main)
  /\ HostChange("hostadd", w,
                SelectSeq(TabOrder, LAMBDA x : x = w \/ x \in Range(main)), sync)

HostClose(w, sync) ==
  /\ w \in Range(main)
  /\ HostChange("hostclose", w, close(main, w, "closed"), sync)

\* The listener calls running() because a change was announced to it.
ListenerRunning == pending["Open Tabs"] /\ OpenTabsRunning

\* The state once activate has run and the listener has called running()
\* for the first time, on an empty main area.
FInit ==
  /\ main = <<>>
  /\ label = [w \in Widgets |-> "a"]
  /\ _widgets = AddAll(NewSignaler, main).widgets
  /\ conns = AddAll(NewSignaler, main).conns
  /\ items = [p \in Providers |-> <<>>]
  /\ pending = [p \in Providers |-> FALSE]
  /\ stable = [p \in Providers |-> p = "Open Tabs"]
  /\ fired = 0
  /\ hit = FALSE
  /\ temit = 0
  /\ executed = <<>>
  /\ sessions = <<>>
  /\ managers = activate(TRUE).managers
  /\ added = activate(TRUE).added
  /\ removed = activate(TRUE).removed
  /\ last = Op("running", "Open Tabs", FALSE, FALSE, 0, 0)

FNext ==
  \/ ListenerRunning
  \/ \E w \in Widgets, l \in Labels, sync \in BOOLEAN : TitleChange(w, l, sync)
  \/ \E sync \in BOOLEAN : LayoutModified(sync)
  \/ \E w \in Widgets, sync \in BOOLEAN : HostAdd(w, sync)
  \/ \E w \in Widgets, sync \in BOOLEAN : HostClose(w, sync)

FSpec == FInit /\ [][FNext]_vars

\* =================================================================== claims

\* C1: a title change of a tracked entity (a MainAreaWidget that addWidget put
\* in _widgets) makes exactly one emission, after which the entity is tracked
\* only if the listener re-invoked running() from inside its handler while the
\* entity is in the main area; a title change of an entity that is not
\* tracked makes no emission and tracks nothing.
C1_TitleChangeEmitsOnceThenUntracked ==
  [][\A w \in MainAreaWidgets :
       label'[w] # label[w] =>
         IF w \in Range(_widgets)
         THEN /\ fired' = 1
              /\ (w \in Range(_widgets')) <=> (last'.sync /\ w \in Range(main))
              /\ (conns'[w] > 0) <=> (last'.sync /\ w \in Range(main))
         ELSE /\ fired' = 0
              /\ _widgets' = _widgets
              /\ conns' = conns]_vars

\* C1 witness: a title of a MainAreaWidget changed again after the emission
\* of its batch and made no emission.
C1_Witness ==
  /\ last.op = "title" /\ last.arg \in MainAreaWidgets
  /\ ~last.sub /\ fired = 0
  /\ hit /\ temit = 1

\* C2: every layoutModified notification makes exactly one emission, whatever
\* is tracked.
C2_LayoutModifiedEmitsOnce == last.op = "layout" => fired = 1

\* C2 witness: layoutModified fired while nothing was tracked.
C2_Witness == last.op = "layout" /\ last.pre = 0 /\ ~last.sync /\ fired = 1

\* C3: a title change of one tracked entity unsubscribes every tracked entity
\* and empties the tracked set, and the title changes made since the last
\* running() have made one emission in total if one of them hit a tracked
\* entity, and none otherwise.
C3_OneEmissionPerBatch ==
  /\ (last.op = "title" /\ last.sub /\ ~last.sync) =>
       (_widgets = <<>> /\ \A v \in Widgets : conns[v] = 0)
  /\ temit = IF hit THEN 1 ELSE 0

\* C3 witness: two entities were tracked, one changed its title, none is
\* subscribed any more.
C3_Witness ==
  /\ last.op = "title" /\ last.sub /\ ~last.sync /\ last.pre >= 2
  /\ fired = 1 /\ Subscribed = 0

\* C4 as stated: an entity added twice is subscribed twice and one title
\* change of it fires the aggregate signal twice.
C4_Original ==
  [][\A w \in MainAreaWidgets :
       (label'[w] # label[w] /\ Count(w, _widgets) >= 2) =>
         (conns[w] = 2 /\ fired' = 2)]_vars

\* C4 amended: an entity added twice is twice in _widgets but holds one
\* connection, and one title change of it fires the aggregate signal once.
C4_AddedTwiceFiresOnce ==
  [][\A w \in MainAreaWidgets :
       (label'[w] # label[w] /\ Count(w, _widgets) >= 2) =>
         (conns[w] = 1 /\ fired' = 1)]_vars

\* C4 witness: the title of an entity that was twice in _widgets changed.
C4_Witness == last.op = "title" /\ last.dup >= 2 /\ fired = 1

\* C5 as stated: shutdownAll() on three widgets of which the second one's
\* close() throws closes the first and the third.
C5_ShutdownAllAttemptsEvery ==
  [][(last'.op = "shutdownAll" /\ Len(main) = 3 /\ last'.arg = main[2]) =>
       Range(main') = {main[2]}]_vars

\* What the items of a provider are to be, read off the source state.
TabsReflect(its) ==
  /\ Len(its) = Len(main)
  /\ \A i \in 1..Len(main) :
       its[i].id = main[i] /\ its[i].label = label[main[i]]

KernelsReflect(its) ==
  LET listed == {i \in 1..Len(sessions) : filterSessions(sessions[i])}
  IN /\ Len(its) = Cardinality(listed)
     /\ \A i \in listed :
          its[Cardinality({j \in listed : j <= i})].id = sessions[i].id

\* C6: what running() returns, called by the listener at any time after a
\* notification or from inside its handler, is the source's state at that
\* moment; an entity whose shutdown failed is in what running() returns next.
C6_RunningReflectsSource ==
  /\ (last.op = "running" /\ last.arg = "Open Tabs") => TabsReflect(items["Open Tabs"])
  /\ (last.op \in {"title", "layout"} /\ last.sync /\ fired > 0) =>
       TabsReflect(items["Open Tabs"])
  /\ (last.op = "running" /\ last.arg = "Kernels") => KernelsReflect(items["Kernels"])
  /\ (last.op = "shutdown" /\ ~last.sub /\ last.pre = 1) =>
       \E i \in 1..Len(OpenTabs(main, label)) : OpenTabs(main, label)[i].id = last.arg
  /\ (last.op = "kshutdown" /\ ~last.sub) =>
       \E i \in 1..Len(sessions) : sessions[i].id = last.arg

\* C6 witness: the listener was notified of a title change and then called
\* running() on a main area of three widgets, one of them not a MainAreaWidget.
C6_Witness ==
  /\ last.op = "running" /\ last.arg = "Open Tabs" /\ last.sub
  /\ Len(items["Open Tabs"]) = 3
  /\ \E i \in 1..3 : items["Open Tabs"][i].label = "b"

\* sub occurs in the final segment of path p: no slash follows it but the
\* slashes that end p.
FinalSegmentContains(p, sub) ==
  \E i \in 1..(Len(p) - Len(sub) + 1) :
    /\ SubSeq(p, i, i + Len(sub) - 1) = sub
    /\ \A j \in (i + Len(sub))..Len(p) :
         p[j] = "/" => \A k \in j..Len(p) : p[k] = "/"

\* The session record at position i of the list has an item in its.
Listed(its, i) == \E j \in 1..Len(its) : its[j].id = sessions[i].id

\* C7 as stated: running() leaves a record out exactly when its name is empty
\* and neither its name nor its path holds a dot.
C7_Original ==
  (last.op = "running" /\ last.arg = "Kernels") =>
    \A i \in 1..Len(sessions) :
      Listed(items["Kernels"], i) <=>
        \/ sessions[i].name # <<>>
        \/ Contains(sessions[i].name, Dot)
        \/ Contains(sessions[i].path, Dot)

\* C7 amended: running() leaves a record out exactly when its name is empty
\* and the final segment of its path holds no dot.
C7_FilterByNameOrDottedBasename ==
  (last.op = "running" /\ last.arg = "Kernels") =>
    \A i \in 1..Len(sessions) :
      Listed(items["Kernels"], i) <=>
        \/ sessions[i].name # <<>>
        \/ FinalSegmentContains(sessions[i].path, Dot)

\* C7 witness: a record with an empty name and a dot in a directory of its
\* path only was left out.
C7_Witness ==
  /\ last.op = "running" /\ last.arg = "Kernels"
  /\ Len(sessions) = 1 /\ sessions[1].name = <<>>
  /\ Contains(sessions[1].path, Dot)
  /\ items["Kernels"] = <<>>

UpperChar(c) ==
  CASE c = "c" -> "C" [] c = "o" -> "O" [] c = "n" -> "N" [] c = "s" -> "S"
    [] c = "l" -> "L" [] c = "e" -> "E" [] OTHER -> c

\* The type tag t is "console", in any case.
IsConsoleTag(t) ==
  /\ Len(t) = Len(Console)
  /\ \A i \in 1..Len(t) : t[i] \in {Console[i], UpperChar(Console[i])}

\* The item of the session record at position i of the list.
ItemOf(its, i) == its[CHOOSE j \in 1..Len(its) : its[j].id = sessions[i].id]

\* C8 as stated: notebook when the name or the path holds ".ipynb", else
\* console when the type tag is "console" in any case, else file.
C8_Original ==
  (last.op = "running" /\ last.arg = "Kernels") =>
    \A i \in 1..Len(sessions) :
      Listed(items["Kernels"], i) =>
        ItemOf(items["Kernels"], i).icon =
          IF Contains(sessions[i].name, Ipynb) \/ Contains(sessions[i].path, Ipynb)
          THEN "notebookIcon"
          ELSE IF IsConsoleTag(sessions[i].type) THEN "consoleIcon"
          ELSE "fileIcon"

\* C8 amended: notebook when the name, or for a record without a name the
\* final segment of the path, holds ".ipynb"; else console when the type tag
\* is "console" in any case; else file.
C8_IconByDisplayName ==
  (last.op = "running" /\ last.arg = "Kernels") =>
    \A i \in 1..Len(sessions) :
      Listed(items["Kernels"], i) =>
        ItemOf(items["Kernels"], i).icon =
          IF \/ sessions[i].name # <<>> /\ Contains(sessions[i].name, Ipynb)
             \/ sessions[i].name = <<>> /\ FinalSegmentContains(sessions[i].path, Ipynb)
          THEN "notebookIcon"
          ELSE IF IsConsoleTag(sessions[i].type) THEN "consoleIcon"
          ELSE "fileIcon"

\* C8 witness: a record of type "console" shown under a name that holds
\* ".ipynb" got the notebook icon.
C8_Witness ==
  /\ last.op = "running" /\ last.arg = "Kernels"
  /\ Len(sessions) = 1 /\ IsConsoleTag(sessions[1].type)
  /\ Len(items["Kernels"]) = 1
  /\ items["Kernels"][1].icon = "notebookIcon"

\* Two results of running() show the same: same length, same labels and
\* icons position by position.
SameView(a, b) ==
  /\ Len(a) = Len(b)
  /\ \A i \in 1..Len(a) : a[i].label = b[i].label /\ a[i].icon = b[i].icon

\* C9: a call of running() made while the source is as it was at the previous
\* call of the same provider returns what that call returned, to the eye.
C9_RunningIdempotent ==
  [][/\ ( /\ \/ last'.op = "running" /\ last'.arg = "Open Tabs"
             \/ last'.op \in {"title", "layout"} /\ last'.sync /\ fired' > 0
          /\ stable["Open Tabs"]
          /\ main' = main
          /\ \A w \in Range(main) : label'[w] = label[w] )
          => SameView(items'["Open Tabs"], items["Open Tabs"])
     /\ ( /\ last'.op = "running" /\ last'.arg = "Kernels"
          /\ stable["Kernels"] )
          => SameView(items'["Kernels"], items["Kernels"])]_vars

\* C9 witness: running() of Open Tabs was called a second time on an unchanged
\* main area of two widgets or more, and tracks a widget twice by now.
C9_Witness ==
  /\ last.op = "running" /\ last.arg = "Open Tabs" /\ last.pre = 1
  /\ Len(items["Open Tabs"]) >= 2
  /\ \E w \in Widgets : Count(w, _widgets) >= 2

\* C10: the registry iterates the providers that were added and not removed,
\* in the order of their adds; activate leaves Open Tabs before Kernels when
\* given a lab shell, and Kernels alone when not.
C10_RegistryOrder ==
  /\ \A i, j \in 1..Len(managers) : i < j => managers[i] < managers[j]
  /\ Range(managers) = (1..Len(added)) \ removed
  /\ last.op = "activate" =>
       RegistryItems(Registry) =
         IF last.arg = "shell" THEN <<"Open Tabs", "Kernels">> ELSE <<"Kernels">>

\* C10 witness: of three providers the second was removed.
C10_Witness ==
  /\ last.op = "dispose" /\ last.sub
  /\ Len(added) = 3 /\ managers = <<1, 3>>
  /\ RegistryItems(Registry)[1] = "Open Tabs"

\* C11: RunningKernel.open() executes exactly one command, with the path of
\* the record the item was built from: 'console:open' exactly when the
\* record's type tag is "console" in any case, 'docmanager:open' otherwise.
C11_OpenExecutesOneCommand ==
  last.op = "open" =>
    \A i \in 1..Len(items["Kernels"]) :
      items["Kernels"][i].id = last.arg =>
        /\ Len(executed) = 1
        /\ executed[1].path = items["Kernels"][i].model.path
        /\ executed[1].command =
             IF IsConsoleTag(items["Kernels"][i].model.type)
             THEN "console:open" ELSE "docmanager:open"

\* C11 witness: open() of an item whose type tag is "console" with capital
\* letters executed 'console:open'.
C11_Witness ==
  /\ last.op = "open"
  /\ Len(items["Kernels"]) = 1
  /\ items["Kernels"][1].model.type # Console
  /\ executed = <<[command |-> "console:open", path |-> items["Kernels"][1].model.path]>>

\* C13: addWidget on an entity that is not a MainAreaWidget leaves _widgets
\* and every subscription as they are, in any state; no such entity is ever
\* subscribed, and a title change of one makes no emission and changes
\* nothing in the signaler.
C13_OtherKindsUntracked ==
  [][/\ \A w \in PlainWidgets :
          /\ addWidget(Signaler, w) = Signaler
          /\ conns[w] = 0 /\ w \notin Range(_widgets)
          /\ label'[w] # label[w] =>
               (fired' = 0 /\ _widgets' = _widgets /\ conns' = conns)
     /\ (last'.op = "running" /\ last'.arg = "Open Tabs") =>
          /\ \A w \in PlainWidgets :
               conns'[w] = conns[w] /\ Count(w, _widgets') = Count(w, _widgets)
          /\ Len(_widgets') =
               Len(_widgets) + Len(SelectSeq(main, IsMainAreaWidget))]_vars

\* C13 witness: the listener holds an item of a widget that is not a
\* MainAreaWidget, other widgets are subscribed, and the title of that widget
\* changed without an emission.
C13_Witness ==
  /\ last.op = "title" /\ last.arg \in PlainWidgets
  /\ ~pending["Open Tabs"] /\ Subscribed >= 1 /\ fired = 0
  /\ \E i \in 1..Len(items["Open Tabs"]) :
       /\ items["Open Tabs"][i].id = last.arg
       /\ items["Open Tabs"][i].label # label[last.arg]

\* The MainAreaWidgets of the main area.
TrackedKindInMain == {w \in MainAreaWidgets : w \in Range(main)}

\* C12: when the listener calls running() from inside its handler, the
\* subscriptions that call makes are in place once the handler has returned
\* (every MainAreaWidget of the main area is in _widgets, once, and
\* subscribed), and the next title change of any of them makes an emission.
C12_ResubscribedInsideHandler ==
  [][(last.op \in {"title", "layout"} /\ last.sync /\ fired > 0) =>
       /\ \A w \in TrackedKindInMain : conns[w] = 1 /\ Count(w, _widgets) = 1
       /\ Len(_widgets) = Cardinality(TrackedKindInMain)
       /\ \A w \in TrackedKindInMain : label'[w] # label[w] => fired' = 1]_vars

\* C12 witness: a title change of a subscribed widget was answered by a
\* running() from inside the handler, which left two widgets subscribed.
C12_Witness ==
  /\ last.op = "title" /\ last.sync /\ last.sub /\ fired = 1
  /\ Cardinality(TrackedKindInMain) = 2 /\ Subscribed = 2
  /\ items["Open Tabs"] = OpenTabs(main, label)

\* C14: a call of running() on either provider makes no emission, leaves the
\* main area, the titles, the session list and the registry as they are, and
\* raises no pending change; running() of Kernels leaves the signaler as it
\* is too, running() of Open Tabs may extend _widgets and the subscriptions.
C14_RunningNonDestructive ==
  [][last'.op = "running" =>
       /\ fired' = 0
       /\ UNCHANGED <<main, label, sessions, managers, added, removed>>
       /\ \A p \in Providers : ~pending'[p]  \/ pending[p]
       /\ last'.arg = "Kernels" => UNCHANGED <<_widgets, conns>>
       /\ last'.arg = "Open Tabs" =>
            /\ SubSeq(_widgets', 1, Len(_widgets)) = _widgets
            /\ \A w \in Widgets : conns'[w] >= conns[w]]_vars

\* C14 witness: running() of Open Tabs, called after a change was announced,
\* subscribed two widgets and left them in the main area.
C14_Witness ==
  /\ last.op = "running" /\ last.arg = "Open Tabs" /\ last.sub
  /\ fired = 0 /\ ~pending["Open Tabs"]
  /\ Subscribed = 2 /\ Len(_widgets) = 2 /\ Len(main) = 3

\* Nothing is tracked and no title is subscribed.
NothingTracked == _widgets = <<>> /\ \A w \in Widgets : conns[w] = 0

\* running() was called in the step: by the listener, or from inside its
\* handler.
RunningCalled ==
  \/ last'.op = "running" /\ last'.arg = "Open Tabs"
  \/ last'.op \in {"title", "layout"} /\ last'.sync /\ fired' > 0

\* C15: a layoutModified notification leaves nothing tracked and no title
\* subscribed, unless the listener calls running() from inside its handler;
\* while nothing is tracked a title change makes no emission, and nothing
\* gets tracked until running() is called.
C15_LayoutModifiedUntracksAll ==
  [][/\ (last'.op = "layout" /\ ~last'.sync) => NothingTracked'
     /\ (NothingTracked /\ label' # label) => fired' = 0
     /\ (NothingTracked /\ ~RunningCalled) => NothingTracked']_vars

\* C15 witness: the listener read a MainAreaWidget, a layoutModified
\* notification followed (no title change has hit a subscribed widget since
\* the last running(), yet a change is pending), and then the title of that
\* widget changed without an emission.
C15_Witness ==
  /\ last.op = "title" /\ last.arg \in MainAreaWidgets /\ ~last.sync
  /\ last.arg \in Range(main)
  /\ ~last.sub /\ fired = 0
  /\ ~hit /\ pending["Open Tabs"]
  /\ \E i \in 1..Len(items["Open Tabs"]) : items["Open Tabs"][i].id = last.arg

\* The entities whose title-change notification is connected to the
\* signaler's handler.
Connected == {w \in Widgets : conns[w] > 0}

\* C16: in every state the entities whose title is connected to the
\* signaler's handler are the entities in _widgets, each through one
\* connection however often it is in _widgets; after an emission that no
\* running() from inside the handler followed there is none.
C16_NoSubscriptionLeak ==
  /\ Connected = Range(_widgets)
  /\ \A w \in Widgets : conns[w] <= 1
  /\ (fired > 0 /\ ~last.sync) => (Connected = {} /\ _widgets = <<>>)

\* C16 witness: two entities were subscribed, one of them twice in _widgets;
\* its title changed, and the emission left no subscription.
C16_Witness ==
  /\ last.op = "title" /\ ~last.sync /\ last.dup >= 2 /\ last.pre = 2
  /\ fired = 1 /\ Connected = {} /\ _widgets = <<>>

\* What the listener last read is fresh: it read the widgets of the main
\* area, and the labels it read for the MainAreaWidgets are their labels.
Fresh ==
  /\ Len(items["Open Tabs"]) = Len(main)
  /\ \A i \in 1..Len(main) :
       /\ items["Open Tabs"][i].id = main[i]
       /\ main[i] \in MainAreaWidgets => items["Open Tabs"][i].label = label[main[i]]

\* C17: between a host that raises layoutModified with every change of the
\* main area and a listener that calls running() after every emission, what
\* the listener last read is fresh whenever no call of running() is owed;
\* and a title change of a MainAreaWidget of the main area made while none
\* is owed makes an emission.
C17_EndToEndFreshness ==
  [][/\ ~pending'["Open Tabs"] => Fresh'
     /\ \A w \in MainAreaWidgets :
          (~pending["Open Tabs"] /\ w \in Range(main) /\ label'[w] # label[w])
            => fired' = 1]_vars

\* C17 witness: with three widgets in the main area and no call of running()
\* owed, the title of a MainAreaWidget changed; the emission was answered
\* from inside the handler and the listener holds the new label.
C17_Witness ==
  /\ last.op = "title" /\ last.arg \in MainAreaWidgets
  /\ last.sub /\ last.sync /\ fired = 1
  /\ ~pending["Open Tabs"] /\ Len(main) = 3 /\ Fresh
  /\ label[last.arg] = "b"

====
